---- MODULE Spec2Model ----
(***************************************************************************)
(* Seat-data acquisition and aggregation pipeline of the Copilot metrics   *)
(* dashboard (src/src/dashboard/services/copilot-seat-service.ts).         *)
(*                                                                         *)
(* Conventions of the translation:                                         *)
(*   - an optional value (null / undefined in the source) is a sequence:   *)
(*     <<>> when absent, <<v>> when present;                               *)
(*   - time is counted in whole days; the service clock runs in UTC, so    *)
(*     Date.setDate(getDate() - 30) is the instant 30 * 24h earlier;       *)
(*   - team names and logins are non-empty strings, as GitHub issues them  *)
(*     (the team catalog alone also reads a reference with an empty name); *)
(*   - the code between two awaits runs without interleaving and is one    *)
(*     action: every request to GitHub or to the store is a step;          *)
(*   - the data of the collaborators (store documents, seat pages, team    *)
(*     listings) does not change while one operation runs.                 *)
(***************************************************************************)
EXTENDS Integers, Sequences, FiniteSets, TLC

\* ----------------------------------------------------------------------
\* Bounds of the model
\* ----------------------------------------------------------------------
MaxSeats == 3
MaxRecords == 2
Now0 == 100

\* Program constant: the activity window in days.
WindowDays == 30

\* ----------------------------------------------------------------------
\* Value domains
\* ----------------------------------------------------------------------
Logins == {"a", "b"}
SeatTeamNames == {"X"}
FilterChoices == {<<>>, <<"X">>, <<"Y", "X">>, <<"Birdeye_team">>}

OptTeams == {<<>>} \cup {<<[name |-> n]>> : n \in SeatTeamNames}
\* absent, or exactly WindowDays before the first clock reading
OptTimes == {<<>>, <<Now0 - WindowDays>>}

SeatValues ==
  {[assignee |-> [login |-> l], assigning_team |-> t, last_activity_at |-> a] :
     l \in Logins, t \in OptTeams, a \in OptTimes}

\* ----------------------------------------------------------------------
\* Generic sequence helpers (Array.prototype.flatMap / filter)
\* ----------------------------------------------------------------------
RECURSIVE FlatMapSeats(_)
FlatMapSeats(recs) ==
  IF recs = <<>> THEN <<>> ELSE Head(recs).seats \o FlatMapSeats(Tail(recs))

\* ----------------------------------------------------------------------
\* Activity window: the four places that count active seats
\* ----------------------------------------------------------------------
\* new Date(); setDate(getDate() - 30)
ThirtyDaysAgo(clock) == clock - WindowDays

\* variant: a seat exactly at the boundary is left out
AllActiveSeatsCountStrict(pages, clock) ==
  Len(SelectSeq(FlatMapSeats(pages),
        LAMBDA seat : /\ seat.last_activity_at # <<>>
                      /\ seat.last_activity_at[1] > ThirtyDaysAgo(clock)))

AllActiveSeatsCount(pages, clock) ==
  Len(SelectSeq(FlatMapSeats(pages),
        LAMBDA seat : /\ seat.last_activity_at # <<>>
                      /\ seat.last_activity_at[1] >= ThirtyDaysAgo(clock)))

BackfillActiveCount(seats, clock) ==
  Len(SelectSeq(seats,
        LAMBDA seat : /\ seat.last_activity_at # <<>>
                      /\ seat.last_activity_at[1] >= ThirtyDaysAgo(clock)))

SingleActiveCount(seats, clock) ==
  Len(SelectSeq(seats,
        LAMBDA seat : /\ seat.last_activity_at # <<>>
                      /\ seat.last_activity_at[1] >= ThirtyDaysAgo(clock)))

MultiActiveCount(seats, clock) ==
  Len(SelectSeq(seats,
        LAMBDA seat : /\ seat.last_activity_at # <<>>
                      /\ seat.last_activity_at[1] >= ThirtyDaysAgo(clock)))

\* ----------------------------------------------------------------------
\* Seat Aggregator: pure parts
\* ----------------------------------------------------------------------
\* data[0].total_active_seats = ... when it is null or undefined
Backfill(recs, clock) ==
  IF recs # <<>> /\ recs[1].total_active_seats = <<>>
  THEN [recs EXCEPT ![1].total_active_seats =
                        <<BackfillActiveCount(recs[1].seats, clock)>>]
  ELSE recs

\* variant: only the first requested team is compared
SeatsWithTeamsFirstTeam(seats, tf) ==
  SelectSeq(seats,
    LAMBDA seat : /\ seat.assigning_team # <<>>
                  /\ seat.assigning_team[1].name # ""
                  /\ tf # <<>>
                  /\ tf[1] = seat.assigning_team[1].name)

\* tier 1 of filterSeatsByTeam
SeatsWithTeams(seats, tf) ==
  SelectSeq(seats,
    LAMBDA seat : /\ seat.assigning_team # <<>>
                  /\ seat.assigning_team[1].name # ""
                  /\ \E i \in DOMAIN tf : tf[i] = seat.assigning_team[1].name)

\* variant: an empty selection falls back to the unfiltered list
SeatsOfMembersOrAll(seats, members) ==
  LET selected == SelectSeq(seats, LAMBDA seat : seat.assignee.login \in members)
  IN IF selected = <<>> THEN seats ELSE selected

\* tier 2 of filterSeatsByTeam: seats.filter(teamMembers.has(login))
SeatsOfMembers(seats, members) ==
  SelectSeq(seats, LAMBDA seat : seat.assignee.login \in members)

\* uniqueSeatsMap: a Map keeps its keys in insertion order
RECURSIVE UniqueSeatsMap(_, _)
UniqueSeatsMap(seats, map) ==
  IF seats = <<>> THEN map
  ELSE LET seat == Head(seats) IN
       UniqueSeatsMap(Tail(seats),
         IF \E i \in DOMAIN map : map[i].assignee.login = seat.assignee.login
         THEN map
         ELSE Append(map, seat))

\* variant: Map.set without the has() test, a later duplicate overwrites
UniqueSeatsOverwrite(seats) ==
  LET first == UniqueSeatsMap(seats, <<>>) IN
  [k \in DOMAIN first |->
     LET same == {i \in DOMAIN seats :
                    seats[i].assignee.login = first[k].assignee.login}
     IN seats[CHOOSE i \in same : \A j \in same : j <= i]]

UniqueSeats(seats) == UniqueSeatsMap(seats, <<>>)

EmptyResult == [total_seats |-> 0, total_active_seats |-> <<0>>, seats |-> <<>>]

\* variant: the stored total_seats is kept
SingleResultStaleTotal(rec, filteredSeats, clock) ==
  [rec EXCEPT !.total_active_seats = <<SingleActiveCount(filteredSeats, clock)>>,
              !.seats = filteredSeats]

SingleResult(rec, filteredSeats, clock) ==
  [rec EXCEPT !.total_seats = Len(filteredSeats),
              !.total_active_seats = <<SingleActiveCount(filteredSeats, clock)>>,
              !.seats = filteredSeats]

\* variant: has_next_page is forwarded from the first record
MultiResultForwardsNext(recs, filteredSeats, clock) ==
  LET unique == UniqueSeats(filteredSeats) IN
  [enterprise |-> recs[1].enterprise,
   organization |-> recs[1].organization,
   total_seats |-> Len(unique),
   total_active_seats |-> <<MultiActiveCount(unique, clock)>>,
   page |-> recs[1].page,
   has_next_page |-> recs[1].has_next_page,
   last_update |-> recs[1].last_update,
   date |-> recs[1].date,
   id |-> recs[1].id,
   seats |-> unique]

MultiResult(recs, filteredSeats, clock) ==
  LET unique == UniqueSeats(filteredSeats) IN
  [enterprise |-> recs[1].enterprise,
   organization |-> recs[1].organization,
   total_seats |-> Len(unique),
   total_active_seats |-> <<MultiActiveCount(unique, clock)>>,
   page |-> recs[1].page,
   has_next_page |-> FALSE,
   last_update |-> recs[1].last_update,
   date |-> recs[1].date,
   id |-> recs[1].id,
   seats |-> unique]

\* the part of aggregateSeatsData after the team filter
AggregatedResult(recs, filteredSeats, clock) ==
  IF Len(recs) = 1
  THEN SingleResult(recs[1], filteredSeats, clock)
  ELSE MultiResult(recs, filteredSeats, clock)

\* the list handed to the team filter: data[0].seats or the flattened pages
SeatsToFilter(recs) ==
  IF Len(recs) = 1 THEN recs[1].seats ELSE FlatMapSeats(recs)

\* ----------------------------------------------------------------------
\* The collaborators: GitHub team endpoints
\* ----------------------------------------------------------------------
\* members[t]: the pages of the team-members listing of team t;
\* teams: the pages of the organization's team listing.
HardcodedParent == "Birdeye_team"
HardcodedChildren == <<"Insights_team", "labs_team">>

\* The organization the lookups are run against: team Y lists its members
\* on two pages and has the children Kid (first page of the team listing)
\* and Kid2 (second page); Grandkid is a child of Kid.  "z" holds no seat,
\* and among the teams reached from Y only Kid2 and Grandkid have member "a".
World ==
  [members |-> [t \in {"X", "Y", "Kid", "Kid2", "Grandkid",
                       "Birdeye_team", "Insights_team", "labs_team"} |->
                  CASE t = "X" -> <<{"b"}>>
                    [] t = "Y" -> <<{"z"}, {"b"}>>
                    [] t = "Kid" -> <<{"b"}>>
                    [] t = "Kid2" -> <<{"a"}>>
                    [] t = "Grandkid" -> <<{"a"}>>
                    [] t = "Birdeye_team" -> <<{"z"}>>
                    [] t = "Insights_team" -> <<{"a"}, {"z"}>>
                    [] t = "labs_team" -> <<{"b"}>>],
   teams |-> << <<[name |-> "Y", parent |-> <<>>],
                  [name |-> "Kid", parent |-> <<[name |-> "Y"]>>],
                  [name |-> "Grandkid", parent |-> <<[name |-> "Kid"]>>]>>,
                <<[name |-> "Kid2", parent |-> <<[name |-> "Y"]>>]>> >>]

Worlds == {World}

\* ----------------------------------------------------------------------
\* State
\* ----------------------------------------------------------------------
VARIABLES
  now,          \* the service clock (days)
  github,       \* what the team endpoints serve
  data,         \* the array handed to aggregateSeatsData (its objects are mutable)
  input,        \* the value of data when aggregateSeatsData was called
  teamFilter,   \* the teamFilter argument
  pc,           \* position of aggregateSeatsData: "call", "tier2", "done"
  allSeats,     \* the seats argument of filterSeatsByTeam
  filteredSeats, \* the local filteredSeats of aggregateSeatsData
  teamMembers,  \* the Set<string> filled by tier 2
  todo,         \* the lookups tier 2 still has to make, in order
  requests,     \* every team-endpoint request issued so far
  result,       \* the value aggregateSeatsData returned
  cosmos,       \* cosmosConfiguration(): is the historical store configured
  server,       \* the pages the seat-listing endpoint serves
  store,        \* the documents of the seats_history container
  call,         \* the public operation in progress and its filter
  opc,          \* its position: "idle", "begin", "fetching", "query",
                \* "aggregating", "returned"
  url,          \* the URL the Seat Fetcher requests next (a page of server)
  pageCount,    \* the Seat Fetcher's page counter
  fetched,      \* enterpriseSeats / organizationSeats
  seatRequests, \* every seat-listing request issued, with its outcome
  queries,      \* every store query issued, with its outcome
  dataResponse, \* what getDataFromApi / getDataFromDatabase returned
  opResult,     \* the ServerActionResponse the public operation returned
  apiScope,     \* process.env.GITHUB_API_SCOPE
  counted       \* the active-seat count each counting place produced

aggVars == <<now, github, data, input, teamFilter, pc, allSeats, filteredSeats,
             teamMembers, todo, requests, result>>

opsVars == <<cosmos, server, store, call, opc, url, pageCount, fetched,
             seatRequests, queries, dataResponse, opResult, apiScope, counted>>

vars == <<aggVars, opsVars>>

NoResult == [status |-> "pending"]
CountingPlaces == {"fetch", "backfill", "single", "multi"}
NoCounts == [p \in CountingPlaces |-> <<>>]
Today == "2024-01-01"

\* ----------------------------------------------------------------------
\* Inputs of the aggregator
\* ----------------------------------------------------------------------
SeatLists == UNION {[1..k -> SeatValues] : k \in 0..MaxSeats}

\* the seats of flat that record k owns
SeatsOwned(flat, owner, k) ==
  LET before == Cardinality({i \in DOMAIN flat : owner[i] < k})
      count  == Cardinality({i \in DOMAIN flat : owner[i] = k})
  IN [j \in 1..count |-> flat[before + j]]

\* a stored page-record; legacy documents lack total_active_seats
MkRecord(k, n, seats, legacy, total) ==
  [enterprise |-> <<>>,
   organization |-> <<"org">>,
   seats |-> seats,
   total_seats |-> total,
   total_active_seats |-> IF legacy THEN <<>> ELSE <<total>>,
   page |-> <<k>>,
   has_next_page |-> k < n,
   last_update |-> <<Now0 - k>>,
   date |-> Today,
   id |-> ToString(k)]

InitAgg ==
  /\ now = Now0
  /\ github \in Worlds
  /\ \E flat \in SeatLists, n \in 0..MaxRecords, legacy \in BOOLEAN :
       \E owner \in [DOMAIN flat -> 1..n] :
         /\ \A i, j \in DOMAIN flat : i <= j => owner[i] <= owner[j]
         /\ \A k \in 1..(n - 1) : \E i \in DOMAIN flat : owner[i] = k
         /\ data = [k \in 1..n |->
                      MkRecord(k, n, SeatsOwned(flat, owner, k), legacy,
                               Len(flat) + 1)]
  /\ input = <<>>
  /\ teamFilter \in FilterChoices
  /\ pc = "call"
  /\ allSeats = <<>>
  /\ filteredSeats = <<>>
  /\ teamMembers = {}
  /\ todo = <<>>
  /\ requests = <<>>
  /\ result = NoResult
  /\ cosmos = FALSE
  /\ server = <<>>
  /\ store = <<>>
  /\ call = [op |-> "aggregateSeatsData"]
  /\ opc = "aggregating"
  /\ url = <<>>
  /\ pageCount = 1
  /\ fetched = <<>>
  /\ seatRequests = <<>>
  /\ queries = <<>>
  /\ dataResponse = NoResult
  /\ opResult = NoResult
  /\ apiScope = "organization"
  /\ counted = NoCounts

\* ----------------------------------------------------------------------
\* Seat Aggregator: aggregateSeatsData and filterSeatsByTeam
\* ----------------------------------------------------------------------
\* for (const teamName of teamFilter): getTeamMembers, then getChildTeamMembers
RECURSIVE TierTwoTasks(_)
TierTwoTasks(tf) ==
  IF tf = <<>> THEN <<>>
  ELSE <<[op |-> "members", team |-> Head(tf), page |-> 1],
         [op |-> "children", team |-> Head(tf), page |-> 1]>>
         \o TierTwoTasks(Tail(tf))

\* one getTeamMembers call per child team, in listing order
RECURSIVE MemberTasks(_)
MemberTasks(names) ==
  IF names = <<>> THEN <<>>
  ELSE <<[op |-> "members", team |-> Head(names), page |-> 1]>>
         \o MemberTasks(Tail(names))

RECURSIVE TeamNamesOf(_)
TeamNamesOf(teams) ==
  IF teams = <<>> THEN <<>> ELSE <<Head(teams).name>> \o TeamNamesOf(Tail(teams))

\* allTeams.filter(team.parent && team.parent.name === parentTeamName)
ChildTeams(allTeams, parentTeamName) ==
  SelectSeq(allTeams,
    LAMBDA team : team.parent # <<>> /\ team.parent[1].name = parentTeamName)

\* data.length === 0
AggregateEmpty ==
  /\ pc = "call"
  /\ data = <<>>
  /\ input' = data
  /\ result' = EmptyResult
  /\ pc' = "done"
  /\ UNCHANGED <<now, github, data, teamFilter, allSeats, filteredSeats,
                 teamMembers, todo, requests>>
  /\ UNCHANGED opsVars

\* no team filter: backfill, (flatten, deduplicate,) recount
AggregateUnfiltered ==
  /\ pc = "call"
  /\ data # <<>>
  /\ teamFilter = <<>>
  /\ input' = data
  /\ data' = Backfill(data, now)
  /\ filteredSeats' = SeatsToFilter(data')
  /\ result' = AggregatedResult(data', filteredSeats', now)
  /\ pc' = "done"
  /\ UNCHANGED <<now, github, teamFilter, allSeats, teamMembers, todo, requests>>
  /\ UNCHANGED opsVars

\* team filter, tier 1 finds seats: no lookup is made
AggregateDirect ==
  /\ pc = "call"
  /\ data # <<>>
  /\ teamFilter # <<>>
  /\ SeatsWithTeams(SeatsToFilter(data), teamFilter) # <<>>
  /\ input' = data
  /\ data' = Backfill(data, now)
  /\ allSeats' = SeatsToFilter(data')
  /\ filteredSeats' = SeatsWithTeams(allSeats', teamFilter)
  /\ result' = AggregatedResult(data', filteredSeats', now)
  /\ pc' = "done"
  /\ UNCHANGED <<now, github, teamFilter, teamMembers, todo, requests>>
  /\ UNCHANGED opsVars

\* team filter, tier 1 finds nothing, configuration available: tier 2 starts
AggregateFallback ==
  /\ pc = "call"
  /\ data # <<>>
  /\ teamFilter # <<>>
  /\ SeatsWithTeams(SeatsToFilter(data), teamFilter) = <<>>
  /\ input' = data
  /\ data' = Backfill(data, now)
  /\ allSeats' = SeatsToFilter(data')
  /\ teamMembers' = {}
  /\ todo' = TierTwoTasks(teamFilter)
  /\ pc' = "tier2"
  /\ UNCHANGED <<now, github, teamFilter, filteredSeats, requests, result>>
  /\ UNCHANGED opsVars

\* team filter, tier 1 finds nothing, ensureGitHubEnvConfig fails or throws
AggregateNoConfig ==
  /\ pc = "call"
  /\ data # <<>>
  /\ teamFilter # <<>>
  /\ SeatsWithTeams(SeatsToFilter(data), teamFilter) = <<>>
  /\ input' = data
  /\ data' = Backfill(data, now)
  /\ allSeats' = SeatsToFilter(data')
  /\ filteredSeats' = <<>>
  /\ result' = AggregatedResult(data', filteredSeats', now)
  /\ pc' = "done"
  /\ UNCHANGED <<now, github, teamFilter, teamMembers, todo, requests>>
  /\ UNCHANGED opsVars

\* the Link header a paginated GitHub endpoint sends with page k of n
LinkHeader(k, n) ==
  IF n <= 1 THEN <<>>
  ELSE << (IF k > 1 THEN <<[url |-> k - 1, rel |-> "prev"]>> ELSE <<>>)
          \o (IF k < n THEN <<[url |-> k + 1, rel |-> "next"],
                              [url |-> n, rel |-> "last"]>> ELSE <<>>)
          \o (IF k > 1 THEN <<[url |-> 1, rel |-> "first"]>> ELSE <<>>) >>

\* the pages of the member listing of a team; a team GitHub does not know
\* has none and every request for it fails
MemberPages(teamName) ==
  IF teamName \in DOMAIN github.members THEN github.members[teamName] ELSE <<>>

\* linkHeader.match(/<([^>]+)>;\s*rel="next"/) in getTeamMembers: the URL of
\* the first link whose rel is "next"
NextMembersUrl(linkHeader) ==
  IF linkHeader = <<>> THEN <<>>
  ELSE LET links == linkHeader[1]
           nexts == {i \in DOMAIN links : links[i].rel = "next"}
       IN IF nexts = {} THEN <<>>
          ELSE <<links[CHOOSE i \in nexts : \A j \in nexts : i <= j].url>>

\* getTeamMembers, one turn of its loop: the page asked for answers OK, its
\* logins are added, and the next page is asked for when the Link header
\* names one; otherwise the call is over
GetTeamMembers ==
  /\ pc = "tier2"
  /\ todo # <<>>
  /\ Head(todo).op = "members"
  /\ LET teamName == Head(todo).team
         page == Head(todo).page
         pages == MemberPages(teamName)
         next == NextMembersUrl(LinkHeader(page, Len(pages)))
     IN /\ page \in DOMAIN pages
        /\ teamMembers' = teamMembers \cup pages[page]
        /\ requests' = Append(requests, [kind |-> "members", team |-> teamName,
                                         page |-> page, ok |-> TRUE])
        /\ todo' = IF next # <<>>
                   THEN <<[Head(todo) EXCEPT !.page = next[1]]>> \o Tail(todo)
                   ELSE Tail(todo)
  /\ UNCHANGED <<now, github, data, input, teamFilter, pc, allSeats,
                 filteredSeats, result>>
  /\ UNCHANGED opsVars

\* variant: a failed page empties the set of members
GetTeamMembersFailsDiscarding ==
  /\ pc = "tier2"
  /\ todo # <<>>
  /\ Head(todo).op = "members"
  /\ requests' = Append(requests, [kind |-> "members", team |-> Head(todo).team,
                                   page |-> Head(todo).page, ok |-> FALSE])
  /\ teamMembers' = {}
  /\ todo' = Tail(todo)
  /\ UNCHANGED <<now, github, data, input, teamFilter, pc, allSeats,
                 filteredSeats, result>>
  /\ UNCHANGED opsVars

\* getTeamMembers: the page asked for is not OK (break) or fetch throws
\* (catch); the call is over and the set keeps what it held
GetTeamMembersFails ==
  /\ pc = "tier2"
  /\ todo # <<>>
  /\ Head(todo).op = "members"
  /\ requests' = Append(requests, [kind |-> "members", team |-> Head(todo).team,
                                   page |-> Head(todo).page, ok |-> FALSE])
  /\ todo' = Tail(todo)
  /\ UNCHANGED <<now, github, data, input, teamFilter, pc, allSeats,
                 filteredSeats, teamMembers, result>>
  /\ UNCHANGED opsVars

\* getChildTeamMembers for the hardcoded parent: its two named children
GetChildTeamMembersHardcoded ==
  /\ pc = "tier2"
  /\ todo # <<>>
  /\ Head(todo).op = "children"
  /\ Head(todo).team = HardcodedParent
  /\ todo' = MemberTasks(HardcodedChildren) \o Tail(todo)
  /\ UNCHANGED <<now, github, data, input, teamFilter, pc, allSeats,
                 filteredSeats, teamMembers, requests, result>>
  /\ UNCHANGED opsVars

\* getChildTeamMembers otherwise: one request to the team listing
GetChildTeamMembersListed ==
  /\ pc = "tier2"
  /\ todo # <<>>
  /\ Head(todo).op = "children"
  /\ Head(todo).team # HardcodedParent
  /\ \E ok \in BOOLEAN :
       LET allTeams == IF github.teams = <<>> THEN <<>> ELSE github.teams[1] IN
       /\ requests' = Append(requests, [kind |-> "teams", team |-> "",
                                        page |-> 1, ok |-> ok])
       /\ todo' = IF ok
                  THEN MemberTasks(TeamNamesOf(ChildTeams(allTeams,
                                                          Head(todo).team)))
                       \o Tail(todo)
                  ELSE Tail(todo)
  /\ UNCHANGED <<now, github, data, input, teamFilter, pc, allSeats,
                 filteredSeats, teamMembers, result>>
  /\ UNCHANGED opsVars

\* the end of tier 2: filter by membership, (deduplicate,) recount; the
\* clock may have moved on while the lookups were awaited
AggregateResume ==
  /\ pc = "tier2"
  /\ todo = <<>>
  /\ \E d \in {0, 1} : now' = now + d
  /\ filteredSeats' = SeatsOfMembers(allSeats, teamMembers)
  /\ result' = AggregatedResult(data, filteredSeats', now')
  /\ pc' = "done"
  /\ UNCHANGED <<github, data, input, teamFilter, allSeats, teamMembers, todo,
                 requests>>
  /\ UNCHANGED opsVars

NextAgg ==
  \/ AggregateEmpty
  \/ AggregateUnfiltered
  \/ AggregateDirect
  \/ AggregateFallback
  \/ AggregateNoConfig
  \/ GetTeamMembers
  \/ GetTeamMembersFails
  \/ GetChildTeamMembersHardcoded
  \/ GetChildTeamMembersListed
  \/ AggregateResume

SpecAgg == InitAgg /\ [][NextAgg]_vars

\* ----------------------------------------------------------------------
\* Collaborators of the public operations
\* ----------------------------------------------------------------------
EnvEnterprise == "ent"
EnvOrganization == "org"
PublicOps == {"getCopilotSeats", "getCopilotSeatsManagement"}

SeatA == [assignee |-> [login |-> "a"], assigning_team |-> <<[name |-> "X"]>>,
          last_activity_at |-> <<Now0 - WindowDays>>]
SeatB == [assignee |-> [login |-> "b"], assigning_team |-> <<>>,
          last_activity_at |-> <<>>]
PageChoices == {<<SeatA, SeatB>>, <<SeatB>>, <<>>}

\* a document of seats_history; older documents lack page and/or
\* total_active_seats
StoreDoc(k, n, seats, noActive, noPage, scope) ==
  [enterprise |-> IF scope = "enterprise" THEN <<EnvEnterprise>> ELSE <<>>,
   organization |-> IF scope = "enterprise" THEN <<>> ELSE <<EnvOrganization>>,
   seats |-> seats,
   total_seats |-> Len(seats) + 1,
   total_active_seats |-> IF noActive THEN <<>> ELSE <<Len(seats)>>,
   page |-> IF noPage THEN <<>> ELSE <<k>>,
   has_next_page |-> k < n,
   last_update |-> <<Now0 - k>>,
   date |-> Today,
   id |-> ToString(k)]

\* unknownResponseError / formatResponseError: a structured error result
UnknownResponseError == [status |-> "ERROR", errors |-> <<"unknown">>]
FormatResponseError == [status |-> "ERROR", errors |-> <<"upstream">>]
EnvError == [status |-> "ERROR", errors |-> <<"configuration">>]
NoDataFound == [status |-> "ERROR", errors |-> <<"No data found">>]
EmptyObject == [x \in {} |-> x]

\* variant: the URL of the first link, whatever its rel
GetNextUrlFromLinkHeaderAnyRel(linkHeader) ==
  IF linkHeader = <<>> THEN <<>>
  ELSE LET links == linkHeader[1]
       IN IF links = <<>> THEN <<>> ELSE <<links[1].url>>

\* getNextUrlFromLinkHeader: the URL of the first link whose rel is "next"
GetNextUrlFromLinkHeader(linkHeader) ==
  IF linkHeader = <<>> THEN <<>>
  ELSE LET links == linkHeader[1]
           nexts == {i \in DOMAIN links : links[i].rel = "next"}
       IN IF nexts = {} THEN <<>>
          ELSE <<links[CHOOSE i \in nexts : \A j \in nexts : i <= j].url>>

\* the JSON body of seat page k
SeatsBody(k) == [seats |-> server[k], total_seats |-> Len(FlatMapSeats(
                   [i \in DOMAIN server |-> [seats |-> server[i]]]))]

\* the page-record built from one successful response
FetchedRecord(filter, body, count, hasNext) ==
  [enterprise |-> IF filter.enterprise # "" THEN <<filter.enterprise>> ELSE <<>>,
   organization |-> IF filter.enterprise # "" THEN <<>>
                    ELSE <<filter.organization>>,
   seats |-> body.seats,
   total_seats |-> body.total_seats,
   total_active_seats |-> <<0>>,
   page |-> <<count>>,
   has_next_page |-> hasNext,
   last_update |-> <<>>,
   date |-> "",
   id |-> ""]

\* seatPage.total_active_seats = allActiveSeatsCount, for every page
WithGlobalActiveCount(pages, clock) ==
  [k \in DOMAIN pages |->
     [pages[k] EXCEPT !.total_active_seats =
                         <<AllActiveSeatsCount(pages, clock)>>]]

\* variant: the query without its page predicate loses its team predicate too
QuerySpecRetryDropsTeam(filter, withPage) ==
  [date |-> Today,
   enterprise |-> IF filter.enterprise # "" THEN <<filter.enterprise>> ELSE <<>>,
   organization |-> IF filter.organization # "" THEN <<filter.organization>>
                    ELSE <<>>,
   team |-> IF withPage THEN filter.team ELSE <<>>,
   page |-> IF withPage /\ filter.page # 0 THEN <<filter.page>> ELSE <<>>]

\* the query getDataFromDatabase builds
QuerySpec(filter, withPage) ==
  [date |-> Today,
   enterprise |-> IF filter.enterprise # "" THEN <<filter.enterprise>> ELSE <<>>,
   organization |-> IF filter.organization # "" THEN <<filter.organization>>
                    ELSE <<>>,
   team |-> filter.team,
   page |-> IF withPage /\ filter.page # 0 THEN <<filter.page>> ELSE <<>>]

\* variant: the team predicate of the query is not applied
QueryItemsAnyTeam(docs, q) ==
  SelectSeq(docs,
    LAMBDA c :
      /\ c.date = q.date
      /\ q.enterprise # <<>> => c.enterprise = q.enterprise
      /\ q.organization # <<>> => c.organization = q.organization
      /\ q.page # <<>> => c.page = q.page)

\* the documents of the container a query selects
QueryItems(docs, q) ==
  SelectSeq(docs,
    LAMBDA c :
      /\ c.date = q.date
      /\ q.enterprise # <<>> => c.enterprise = q.enterprise
      /\ q.organization # <<>> => c.organization = q.organization
      /\ q.team # <<>> =>
           \E i \in DOMAIN c.seats :
             /\ c.seats[i].assigning_team # <<>>
             /\ \E t \in DOMAIN q.team :
                  c.seats[i].assigning_team[1].name = q.team[t]
      /\ q.page # <<>> => c.page = q.page)

\* what the public operation returns when its seat source reported no data
OnNoData(op) ==
  IF op = "getCopilotSeatsManagement"
  THEN [status |-> "OK", response |-> EmptyObject]
  ELSE NoDataFound

\* ----------------------------------------------------------------------
\* Public operations: getCopilotSeats, getCopilotSeatsManagement
\* ----------------------------------------------------------------------
\* the operation starts: configuration is read, the scope is defaulted
Call ==
  /\ opc = "idle"
  /\ \E op \in PublicOps, team \in FilterChoices, page \in {0, 1} :
       call' = [op |-> op,
                filter |-> [enterprise |-> IF apiScope = "enterprise"
                                           THEN EnvEnterprise ELSE "",
                            organization |-> IF apiScope = "enterprise"
                                             THEN "" ELSE EnvOrganization,
                            team |-> team,
                            page |-> page]]
  /\ opc' = "begin"
  /\ UNCHANGED aggVars
  /\ UNCHANGED <<cosmos, server, store, url, pageCount, fetched, seatRequests,
                 queries, dataResponse, opResult, apiScope, counted>>

\* ensureGitHubEnvConfig does not answer OK: the operation returns it
CallEnvError ==
  /\ opc = "idle"
  /\ \E op \in PublicOps : call' = [op |-> op]
  /\ opResult' = EnvError
  /\ opc' = "returned"
  /\ UNCHANGED aggVars
  /\ UNCHANGED <<cosmos, server, store, url, pageCount, fetched, seatRequests,
                 queries, dataResponse, apiScope, counted>>

\* getDataFromApi up to its first request
FetchBegin ==
  /\ opc = "begin"
  /\ ~cosmos
  /\ url' = <<1>>
  /\ pageCount' = 1
  /\ fetched' = <<>>
  /\ seatRequests' = <<[page |-> 1, outcome |-> "pending"]>>
  /\ opc' = "fetching"
  /\ UNCHANGED aggVars
  /\ UNCHANGED <<cosmos, server, store, call, queries, dataResponse, opResult,
                 apiScope, counted>>

\* getDataFromApi finds no configuration; getCopilotSeatsFromApi reports it
FetchEnvError ==
  /\ opc = "begin"
  /\ ~cosmos
  /\ dataResponse' = EnvError
  /\ opResult' = OnNoData(call.op)
  /\ opc' = "returned"
  /\ UNCHANGED aggVars
  /\ UNCHANGED <<cosmos, server, store, call, url, pageCount, fetched,
                 seatRequests, queries, apiScope, counted>>

\* a page answers OK and names a next page: record it, request the next
FetchNextPage ==
  /\ opc = "fetching"
  /\ LET next == GetNextUrlFromLinkHeader(LinkHeader(url[1], Len(server))) IN
     /\ next # <<>>
     /\ fetched' = Append(fetched, FetchedRecord(call.filter, SeatsBody(url[1]),
                                                 pageCount, TRUE))
     /\ url' = next
     /\ seatRequests' =
          Append([seatRequests EXCEPT ![Len(seatRequests)].outcome = "ok"],
                 [page |-> next[1], outcome |-> "pending"])
  /\ pageCount' = pageCount + 1
  /\ UNCHANGED aggVars
  /\ UNCHANGED <<cosmos, server, store, call, opc, queries, dataResponse,
                 opResult, apiScope, counted>>

\* a page answers OK and names no next page: the loop ends, every page gets
\* the global active count, and the pages go to aggregateSeatsData
FetchLastPage ==
  /\ opc = "fetching"
  /\ GetNextUrlFromLinkHeader(LinkHeader(url[1], Len(server))) = <<>>
  /\ fetched' = WithGlobalActiveCount(
                  Append(fetched, FetchedRecord(call.filter, SeatsBody(url[1]),
                                                pageCount, FALSE)), now)
  /\ url' = <<>>
  /\ pageCount' = pageCount + 1
  /\ seatRequests' = [seatRequests EXCEPT ![Len(seatRequests)].outcome = "ok"]
  /\ dataResponse' = [status |-> "OK", response |-> fetched']
  /\ data' = fetched'
  /\ teamFilter' = call.filter.team
  /\ pc' = "call"
  /\ opc' = "aggregating"
  /\ UNCHANGED <<now, github, input, allSeats, filteredSeats, teamMembers, todo,
                 requests, result>>
  /\ UNCHANGED <<cosmos, server, store, call, queries, opResult, apiScope,
                 counted>>

\* variant: a page that is not OK is requested again
FetchFailedRetries ==
  /\ opc = "fetching"
  /\ seatRequests' =
       Append([seatRequests EXCEPT ![Len(seatRequests)].outcome = "notok"],
              [page |-> url[1], outcome |-> "pending"])
  /\ UNCHANGED aggVars
  /\ UNCHANGED <<cosmos, server, store, call, opc, url, pageCount, fetched,
                 queries, dataResponse, opResult, apiScope, counted>>

\* a page request is not OK, or fetch throws: getDataFromApi returns the
\* error at once and getCopilotSeatsFromApi reports no data
FetchFailed ==
  /\ opc = "fetching"
  /\ \E outcome \in {"notok", "throw"} :
       /\ seatRequests' =
            [seatRequests EXCEPT ![Len(seatRequests)].outcome = outcome]
       /\ dataResponse' = IF outcome = "notok" THEN FormatResponseError
                          ELSE UnknownResponseError
  /\ opResult' = OnNoData(call.op)
  /\ opc' = "returned"
  /\ UNCHANGED aggVars
  /\ UNCHANGED <<cosmos, server, store, call, url, pageCount, fetched, queries,
                 apiScope, counted>>

\* getDataFromDatabase, first query answered: it selected a document, or it
\* carries no page predicate; its documents go to aggregateSeatsData
DbQueryAnswers ==
  /\ opc = "begin"
  /\ cosmos
  /\ LET q1 == QuerySpec(call.filter, TRUE)
         resources == QueryItems(store, q1)
     IN /\ ~(resources = <<>> /\ q1.page # <<>>)
        /\ queries' = <<[query |-> q1, outcome |-> "ok"]>>
        /\ dataResponse' = [status |-> "OK", response |-> resources]
        /\ data' = resources
  /\ teamFilter' = call.filter.team
  /\ pc' = "call"
  /\ opc' = "aggregating"
  /\ UNCHANGED <<now, github, input, allSeats, filteredSeats, teamMembers, todo,
                 requests, result>>
  /\ UNCHANGED <<cosmos, server, store, call, url, pageCount, fetched,
                 seatRequests, opResult, apiScope, counted>>

\* first query answered with no document and it carries a page predicate:
\* the query without that predicate is issued
DbQueryEmpty ==
  /\ opc = "begin"
  /\ cosmos
  /\ LET q1 == QuerySpec(call.filter, TRUE) IN
     /\ QueryItems(store, q1) = <<>>
     /\ q1.page # <<>>
     /\ queries' = <<[query |-> q1, outcome |-> "ok"]>>
  /\ opc' = "retrying"
  /\ UNCHANGED aggVars
  /\ UNCHANGED <<cosmos, server, store, call, url, pageCount, fetched,
                 seatRequests, dataResponse, opResult, apiScope, counted>>

\* the query without the page predicate answered: its documents go to
\* aggregateSeatsData
DbRetryAnswers ==
  /\ opc = "retrying"
  /\ LET q2 == QuerySpec(call.filter, FALSE)
         resources == QueryItems(store, q2)
     IN
     /\ queries' = Append(queries, [query |-> q2, outcome |-> "ok"])
     /\ dataResponse' = [status |-> "OK", response |-> resources]
     /\ data' = resources
  /\ teamFilter' = call.filter.team
  /\ pc' = "call"
  /\ opc' = "aggregating"
  /\ UNCHANGED <<now, github, input, allSeats, filteredSeats, teamMembers, todo,
                 requests, result>>
  /\ UNCHANGED <<cosmos, server, store, call, url, pageCount, fetched,
                 seatRequests, opResult, apiScope, counted>>

\* the first store query throws: getDataFromDatabase returns the error and
\* getCopilotSeatsFromDatabase reports no data
DbQueryFails ==
  /\ opc = "begin"
  /\ cosmos
  /\ queries' = <<[query |-> QuerySpec(call.filter, TRUE), outcome |-> "throw"]>>
  /\ dataResponse' = UnknownResponseError
  /\ opResult' = OnNoData(call.op)
  /\ opc' = "returned"
  /\ UNCHANGED aggVars
  /\ UNCHANGED <<cosmos, server, store, call, url, pageCount, fetched,
                 seatRequests, apiScope, counted>>

\* the query without the page predicate throws: the same error path
DbRetryFails ==
  /\ opc = "retrying"
  /\ queries' = Append(queries, [query |-> QuerySpec(call.filter, FALSE),
                                 outcome |-> "throw"])
  /\ dataResponse' = UnknownResponseError
  /\ opResult' = OnNoData(call.op)
  /\ opc' = "returned"
  /\ UNCHANGED aggVars
  /\ UNCHANGED <<cosmos, server, store, call, url, pageCount, fetched,
                 seatRequests, apiScope, counted>>

\* aggregateSeatsData has returned: the operation returns its result
OpReturn ==
  /\ opc = "aggregating"
  /\ call.op \in PublicOps
  /\ pc = "done"
  /\ opResult' = [status |-> "OK", response |-> result]
  /\ opc' = "returned"
  /\ UNCHANGED aggVars
  /\ UNCHANGED <<cosmos, server, store, call, url, pageCount, fetched,
                 seatRequests, queries, dataResponse, apiScope, counted>>

InitOps ==
  /\ now = Now0
  /\ github \in Worlds
  /\ data = <<>>
  /\ input = <<>>
  /\ teamFilter = <<>>
  /\ pc = "idle"
  /\ allSeats = <<>>
  /\ filteredSeats = <<>>
  /\ teamMembers = {}
  /\ todo = <<>>
  /\ requests = <<>>
  /\ result = NoResult
  /\ cosmos \in BOOLEAN
  /\ apiScope \in {"enterprise", "organization"}
  /\ IF cosmos
     THEN /\ server = <<>>
          /\ \E n \in 0..MaxRecords, noActive \in BOOLEAN, noPage \in BOOLEAN :
               \E pages \in [1..n -> PageChoices] :
                 store = [k \in 1..n |->
                            StoreDoc(k, n, pages[k], noActive, noPage, apiScope)]
     ELSE /\ store = <<>>
          /\ \E n \in 1..MaxRecords : server \in [1..n -> PageChoices]
  /\ call = [op |-> "none"]
  /\ opc = "idle"
  /\ url = <<>>
  /\ pageCount = 1
  /\ fetched = <<>>
  /\ seatRequests = <<>>
  /\ queries = <<>>
  /\ dataResponse = NoResult
  /\ opResult = NoResult
  /\ counted = NoCounts

NextOps ==
  \/ Call
  \/ CallEnvError
  \/ FetchBegin
  \/ FetchEnvError
  \/ FetchNextPage
  \/ FetchLastPage
  \/ FetchFailed
  \/ DbQueryAnswers
  \/ DbQueryEmpty
  \/ DbRetryAnswers
  \/ DbQueryFails
  \/ DbRetryFails
  \/ OpReturn
  \/ NextAgg

SpecOps == InitOps /\ [][NextOps]_vars

\* ----------------------------------------------------------------------
\* The counting places applied to one seat list at one instant
\* ----------------------------------------------------------------------
ActivityChoices ==
  {[assignee |-> [login |-> "a"], assigning_team |-> <<>>, last_activity_at |-> a] :
     a \in {<<>>, <<Now0 - WindowDays - 1>>, <<Now0 - WindowDays>>,
            <<Now0 - WindowDays + 1>>}}

CountAtFetch ==
  /\ counted["fetch"] = <<>>
  /\ counted' = [counted EXCEPT !["fetch"] = <<AllActiveSeatsCount(data, now)>>]
  /\ UNCHANGED aggVars
  /\ UNCHANGED <<cosmos, server, store, call, opc, url, pageCount, fetched,
                 seatRequests, queries, dataResponse, opResult, apiScope>>

CountAtBackfill ==
  /\ counted["backfill"] = <<>>
  /\ counted' = [counted EXCEPT
                   !["backfill"] = <<BackfillActiveCount(data[1].seats, now)>>]
  /\ UNCHANGED aggVars
  /\ UNCHANGED <<cosmos, server, store, call, opc, url, pageCount, fetched,
                 seatRequests, queries, dataResponse, opResult, apiScope>>

CountAtSingle ==
  /\ counted["single"] = <<>>
  /\ counted' = [counted EXCEPT
                   !["single"] = <<SingleActiveCount(data[1].seats, now)>>]
  /\ UNCHANGED aggVars
  /\ UNCHANGED <<cosmos, server, store, call, opc, url, pageCount, fetched,
                 seatRequests, queries, dataResponse, opResult, apiScope>>

CountAtMulti ==
  /\ counted["multi"] = <<>>
  /\ counted' = [counted EXCEPT
                   !["multi"] = <<MultiActiveCount(data[1].seats, now)>>]
  /\ UNCHANGED aggVars
  /\ UNCHANGED <<cosmos, server, store, call, opc, url, pageCount, fetched,
                 seatRequests, queries, dataResponse, opResult, apiScope>>

InitActive ==
  /\ now \in {Now0, Now0 + 1}
  /\ github = World
  /\ \E k \in 0..MaxSeats : \E seats \in [1..k -> ActivityChoices] :
       data = <<MkRecord(1, 1, seats, TRUE, k)>>
  /\ input = <<>>
  /\ teamFilter = <<>>
  /\ pc = "idle"
  /\ allSeats = <<>>
  /\ filteredSeats = <<>>
  /\ teamMembers = {}
  /\ todo = <<>>
  /\ requests = <<>>
  /\ result = NoResult
  /\ cosmos = FALSE
  /\ server = <<>>
  /\ store = <<>>
  /\ call = [op |-> "none"]
  /\ opc = "counting"
  /\ url = <<>>
  /\ pageCount = 1
  /\ fetched = <<>>
  /\ seatRequests = <<>>
  /\ queries = <<>>
  /\ dataResponse = NoResult
  /\ opResult = NoResult
  /\ apiScope = "organization"
  /\ counted = NoCounts

NextActive ==
  \/ CountAtFetch
  \/ CountAtBackfill
  \/ CountAtSingle
  \/ CountAtMulti

SpecActive == InitActive /\ [][NextActive]_vars

\* ----------------------------------------------------------------------
\* The team catalog: getAllCopilotSeatsTeams
\* ----------------------------------------------------------------------
\* A team reference is [id, name]: id is <<>> when the reference has none,
\* name is "" when it is missing or empty (both read as "" by a.name || "").
TeamRefs ==
  {[id |-> i, name |-> n] : i \in {<<>>, <<1>>}, n \in {"A", "B"}}
    \cup {[id |-> <<2>>, name |-> ""]}

\* a seat as the catalog reads it: only its assigning_team matters
CatalogSeats ==
  {[assignee |-> [login |-> "a"], assigning_team |-> t, last_activity_at |-> <<>>] :
     t \in {<<>>} \cup {<<r>> : r \in TeamRefs}}

\* the organization's team listing as the seat catalog reads it
CatalogWorld ==
  [members |-> World.members,
   teams |-> << <<[id |-> <<2>>, name |-> "B"], [id |-> <<1>>, name |-> "A"]>>,
                <<[id |-> <<2>>, name |-> "B"]>> >>]

\* the position of a name in the order of String.prototype.localeCompare
NameRank(name) ==
  CASE name = "" -> 0
    [] name = "A" -> 1
    [] name = "B" -> 2

\* seats.map(seat => seat.assigning_team).filter(team => !!team)
PageTeams(seats) ==
  LET carrying == SelectSeq(seats, LAMBDA seat : seat.assigning_team # <<>>)
  IN [i \in DOMAIN carrying |-> carrying[i].assigning_team[1]]

\* teams.push(...pageTeams) over the pages in order
RECURSIVE CollectTeams(_)
CollectTeams(pages) ==
  IF pages = <<>> THEN <<>>
  ELSE CollectTeams(SubSeq(pages, 1, Len(pages) - 1))
         \o PageTeams(pages[Len(pages)])

\* self.findIndex(t => (t.id ? t.id === team.id : t.name === team.name)),
\* 0 standing for "not found"
FindIndex(self, team) ==
  LET found == {j \in DOMAIN self :
                  IF self[j].id # <<>> THEN self[j].id = team.id
                  ELSE self[j].name = team.name}
  IN IF found = {} THEN 0 ELSE CHOOSE j \in found : \A k \in found : j <= k

\* teams.filter((team, index, self) => index === self.findIndex(...))
RECURSIVE UniqueTeamsUpTo(_, _)
UniqueTeamsUpTo(teams, n) ==
  IF n = 0 THEN <<>>
  ELSE UniqueTeamsUpTo(teams, n - 1)
         \o (IF FindIndex(teams, teams[n]) = n THEN <<teams[n]>> ELSE <<>>)

UniqueTeams(teams) == UniqueTeamsUpTo(teams, Len(teams))

\* SELECT DISTINCT VALUE seat.assigning_team: each value once, in the order
\* the documents hold them
RECURSIVE DistinctValues(_)
DistinctValues(teams) ==
  IF teams = <<>> THEN <<>>
  ELSE LET before == DistinctValues(SubSeq(teams, 1, Len(teams) - 1))
           last == teams[Len(teams)]
       IN IF \E i \in DOMAIN before : before[i] = last THEN before
          ELSE Append(before, last)

\* resources.sort((a, b) => (a.name || "").localeCompare(b.name || "")): a
\* stable sort
RECURSIVE SortByName(_)
SortByName(teams) ==
  IF teams = <<>> THEN <<>>
  ELSE LET sorted == SortByName(SubSeq(teams, 1, Len(teams) - 1))
           last == teams[Len(teams)]
           keep == {i \in DOMAIN sorted :
                      NameRank(sorted[i].name) <= NameRank(last.name)}
       IN SubSeq(sorted, 1, Cardinality(keep)) \o <<last>>
            \o SubSeq(sorted, Cardinality(keep) + 1, Len(sorted))

\* the seats of a snapshot cut into n pages
SplitPages(flat, n) ==
  [k \in 1..n |-> SubSeq(flat, ((k - 1) * Len(flat)) \div n + 1,
                         (k * Len(flat)) \div n)]

\* the team values the catalog query reads: the seats of the documents of
\* the date and scope asked for
CatalogQueryItems(docs, q) ==
  DistinctValues(CollectTeams(
    [k \in DOMAIN QueryItems(docs, q) |-> QueryItems(docs, q)[k].seats]))

\* getAllCopilotSeatsTeams starts: configuration is read, the scope defaulted
CatalogCall ==
  /\ opc = "idle"
  /\ call' = [op |-> "getAllCopilotSeatsTeams",
              filter |-> [enterprise |-> IF apiScope = "enterprise"
                                         THEN EnvEnterprise ELSE "",
                          organization |-> IF apiScope = "enterprise"
                                           THEN "" ELSE EnvOrganization,
                          team |-> <<>>,
                          page |-> 0]]
  /\ opc' = "catalog"
  /\ UNCHANGED aggVars
  /\ UNCHANGED <<cosmos, server, store, url, pageCount, fetched, seatRequests,
                 queries, dataResponse, opResult, apiScope, counted>>

\* ensureGitHubEnvConfig does not answer OK: the operation returns it
CatalogEnvError ==
  /\ opc = "idle"
  /\ call' = [op |-> "getAllCopilotSeatsTeams"]
  /\ opResult' = EnvError
  /\ opc' = "returned"
  /\ UNCHANGED aggVars
  /\ UNCHANGED <<cosmos, server, store, url, pageCount, fetched, seatRequests,
                 queries, dataResponse, apiScope, counted>>

\* getAllCopilotSeatsTeamsFromDatabase answers: the distinct teams, sorted
CatalogFromDatabase ==
  /\ opc = "catalog"
  /\ cosmos
  /\ LET q == QuerySpec(call.filter, FALSE) IN
     /\ queries' = <<[query |-> q, outcome |-> "ok"]>>
     /\ dataResponse' = [status |-> "OK",
                         response |-> SortByName(CatalogQueryItems(store, q))]
  /\ opResult' = [status |-> "OK", response |-> dataResponse'.response]
  /\ opc' = "returned"
  /\ UNCHANGED aggVars
  /\ UNCHANGED <<cosmos, server, store, call, url, pageCount, fetched,
                 seatRequests, apiScope, counted>>

\* the catalog query throws: the operation reports no data
CatalogDatabaseFails ==
  /\ opc = "catalog"
  /\ cosmos
  /\ queries' = <<[query |-> QuerySpec(call.filter, FALSE), outcome |-> "throw"]>>
  /\ dataResponse' = UnknownResponseError
  /\ opResult' = NoDataFound
  /\ opc' = "returned"
  /\ UNCHANGED aggVars
  /\ UNCHANGED <<cosmos, server, store, call, url, pageCount, fetched,
                 seatRequests, apiScope, counted>>

\* getAllCopilotSeatsTeamsFromApi finds no configuration and returns it;
\* getAllCopilotSeatsTeams reports no data
CatalogApiEnvError ==
  /\ opc = "catalog"
  /\ ~cosmos
  /\ seatRequests = <<>>
  /\ dataResponse' = EnvError
  /\ opResult' = NoDataFound
  /\ opc' = "returned"
  /\ UNCHANGED aggVars
  /\ UNCHANGED <<cosmos, server, store, call, url, pageCount, fetched,
                 seatRequests, queries, apiScope, counted>>

\* the seat page the loop of getAllCopilotSeatsTeamsFromApi asks for now:
\* the first, or the one the last response named under rel="next"
CatalogSeatPage ==
  IF seatRequests = <<>> THEN 1
  ELSE GetNextUrlFromLinkHeader(
         LinkHeader(seatRequests[Len(seatRequests)].page, Len(server)))[1]

\* the teams collected once the seat page asked for has answered
CatalogTeamsWith(page) == fetched \o PageTeams(server[page])

\* a seat page is not OK or fetch throws: the function returns the error
\* and the operation reports no data
CatalogSeatPageFails ==
  /\ opc = "catalog"
  /\ ~cosmos
  /\ \E outcome \in {"notok", "throw"} :
       /\ seatRequests' = Append(seatRequests, [page |-> CatalogSeatPage,
                                                outcome |-> outcome])
       /\ dataResponse' = IF outcome = "notok" THEN FormatResponseError
                          ELSE UnknownResponseError
  /\ opResult' = NoDataFound
  /\ opc' = "returned"
  /\ UNCHANGED aggVars
  /\ UNCHANGED <<cosmos, server, store, call, url, pageCount, fetched, queries,
                 apiScope, counted>>

\* a seat page answers OK and names a next page: its teams are collected
\* and the next page is asked for
CatalogSeatPageNext ==
  /\ opc = "catalog"
  /\ ~cosmos
  /\ GetNextUrlFromLinkHeader(LinkHeader(CatalogSeatPage, Len(server))) # <<>>
  /\ fetched' = CatalogTeamsWith(CatalogSeatPage)
  /\ seatRequests' = Append(seatRequests, [page |-> CatalogSeatPage,
                                           outcome |-> "ok"])
  /\ UNCHANGED aggVars
  /\ UNCHANGED <<cosmos, server, store, call, opc, url, pageCount, queries,
                 dataResponse, opResult, apiScope, counted>>

\* the last seat page answers OK and some seat carried a team, or the scope
\* is the enterprise: the teams collected, without duplicates, are the answer
CatalogFromSeats ==
  /\ opc = "catalog"
  /\ ~cosmos
  /\ GetNextUrlFromLinkHeader(LinkHeader(CatalogSeatPage, Len(server))) = <<>>
  /\ CatalogTeamsWith(CatalogSeatPage) # <<>> \/ call.filter.enterprise # ""
  /\ fetched' = CatalogTeamsWith(CatalogSeatPage)
  /\ seatRequests' = Append(seatRequests, [page |-> CatalogSeatPage,
                                           outcome |-> "ok"])
  /\ dataResponse' = [status |-> "OK", response |-> UniqueTeams(fetched')]
  /\ opResult' = [status |-> "OK", response |-> dataResponse'.response]
  /\ opc' = "returned"
  /\ UNCHANGED aggVars
  /\ UNCHANGED <<cosmos, server, store, call, url, pageCount, queries,
                 apiScope, counted>>

\* the last seat page answers OK, no seat carried a team, organization
\* scope: the first page of the team listing is asked for
CatalogNeedsListing ==
  /\ opc = "catalog"
  /\ ~cosmos
  /\ GetNextUrlFromLinkHeader(LinkHeader(CatalogSeatPage, Len(server))) = <<>>
  /\ CatalogTeamsWith(CatalogSeatPage) = <<>>
  /\ call.filter.enterprise = ""
  /\ seatRequests' = Append(seatRequests, [page |-> CatalogSeatPage,
                                           outcome |-> "ok"])
  /\ opc' = "listing"
  /\ UNCHANGED aggVars
  /\ UNCHANGED <<cosmos, server, store, call, url, pageCount, fetched, queries,
                 dataResponse, opResult, apiScope, counted>>

\* the page of the team listing the fallback loop asks for now
CatalogListingPage ==
  IF requests = <<>> THEN 1
  ELSE GetNextUrlFromLinkHeader(
         LinkHeader(requests[Len(requests)].page, Len(github.teams)))[1]

\* a listing page answers OK and names a next page: its teams are pushed
\* and the next page is asked for
CatalogListingPageNext ==
  /\ opc = "listing"
  /\ CatalogListingPage \in DOMAIN github.teams
  /\ GetNextUrlFromLinkHeader(
       LinkHeader(CatalogListingPage, Len(github.teams))) # <<>>
  /\ fetched' = fetched \o github.teams[CatalogListingPage]
  /\ requests' = Append(requests, [kind |-> "teams", team |-> "",
                                   page |-> CatalogListingPage, ok |-> TRUE])
  /\ UNCHANGED <<now, github, data, input, teamFilter, pc, allSeats,
                 filteredSeats, teamMembers, todo, result>>
  /\ UNCHANGED <<cosmos, server, store, call, opc, url, pageCount,
                 seatRequests, queries, dataResponse, opResult, apiScope,
                 counted>>

\* a listing page is not OK (break) or fetch throws (catch): the teams
\* pushed so far, without duplicates, are the answer
CatalogListingFails ==
  /\ opc = "listing"
  /\ requests' = Append(requests, [kind |-> "teams", team |-> "",
                                   page |-> CatalogListingPage, ok |-> FALSE])
  /\ dataResponse' = [status |-> "OK", response |-> UniqueTeams(fetched)]
  /\ opResult' = [status |-> "OK", response |-> dataResponse'.response]
  /\ opc' = "returned"
  /\ UNCHANGED <<now, github, data, input, teamFilter, pc, allSeats,
                 filteredSeats, teamMembers, todo, result>>
  /\ UNCHANGED <<cosmos, server, store, call, url, pageCount, fetched,
                 seatRequests, queries, apiScope, counted>>

\* the last listing page answers OK: the teams of the listing, without
\* duplicates, are the answer
CatalogFromListing ==
  /\ opc = "listing"
  /\ CatalogListingPage \in DOMAIN github.teams
  /\ GetNextUrlFromLinkHeader(
       LinkHeader(CatalogListingPage, Len(github.teams))) = <<>>
  /\ fetched' = fetched \o github.teams[CatalogListingPage]
  /\ requests' = Append(requests, [kind |-> "teams", team |-> "",
                                   page |-> CatalogListingPage, ok |-> TRUE])
  /\ dataResponse' = [status |-> "OK", response |-> UniqueTeams(fetched')]
  /\ opResult' = [status |-> "OK", response |-> dataResponse'.response]
  /\ opc' = "returned"
  /\ UNCHANGED <<now, github, data, input, teamFilter, pc, allSeats,
                 filteredSeats, teamMembers, todo, result>>
  /\ UNCHANGED <<cosmos, server, store, call, url, pageCount, seatRequests,
                 queries, apiScope, counted>>

InitCatalog ==
  /\ now = Now0
  /\ github = CatalogWorld
  /\ data = <<>>
  /\ input = <<>>
  /\ teamFilter = <<>>
  /\ pc = "idle"
  /\ allSeats = <<>>
  /\ filteredSeats = <<>>
  /\ teamMembers = {}
  /\ todo = <<>>
  /\ requests = <<>>
  /\ result = NoResult
  /\ cosmos \in BOOLEAN
  /\ apiScope \in {"enterprise", "organization"}
  /\ \E len \in 0..MaxSeats, n \in 1..MaxRecords :
       \E flat \in [1..len -> CatalogSeats] :
         IF cosmos
         THEN /\ server = <<>>
              /\ store = [k \in 1..n |->
                            StoreDoc(k, n, SplitPages(flat, n)[k], FALSE, FALSE,
                                     apiScope)]
         ELSE /\ store = <<>>
              /\ server = SplitPages(flat, n)
  /\ call = [op |-> "none"]
  /\ opc = "idle"
  /\ url = <<>>
  /\ pageCount = 1
  /\ fetched = <<>>
  /\ seatRequests = <<>>
  /\ queries = <<>>
  /\ dataResponse = NoResult
  /\ opResult = NoResult
  /\ counted = NoCounts

NextCatalog ==
  \/ CatalogCall
  \/ CatalogEnvError
  \/ CatalogFromDatabase
  \/ CatalogDatabaseFails
  \/ CatalogApiEnvError
  \/ CatalogSeatPageFails
  \/ CatalogSeatPageNext
  \/ CatalogFromSeats
  \/ CatalogNeedsListing
  \/ CatalogListingPageNext
  \/ CatalogListingFails
  \/ CatalogFromListing

SpecCatalog == InitCatalog /\ [][NextCatalog]_vars

\* ======================================================================
\* Properties
\* ======================================================================
\* Vocabulary of the properties, stated without the operators of the model.

\* the seats of the records in page order
RECURSIVE PageOrder(_)
PageOrder(recs) ==
  IF recs = <<>> THEN <<>>
  ELSE PageOrder(SubSeq(recs, 1, Len(recs) - 1)) \o recs[Len(recs)].seats

\* the k-th smallest element of a set of indices
KthOf(S, k) == CHOOSE i \in S : Cardinality({j \in S : j <= i}) = k

\* the subsequence of seats at the indices S
Picked(seats, S) == [k \in 1..Cardinality(S) |-> seats[KthOf(S, k)]]

FirstOccurrences(seats) ==
  {i \in DOMAIN seats :
     \A j \in 1..(i - 1) : seats[j].assignee.login # seats[i].assignee.login}

DirectMatches(seats, tf) ==
  {i \in DOMAIN seats :
     /\ seats[i].assigning_team # <<>>
     /\ \E t \in DOMAIN tf : tf[t] = seats[i].assigning_team[1].name}

\* active at the instant t: last activity present and not earlier than t - 30
ActiveAt(seats, t) ==
  {i \in DOMAIN seats :
     /\ seats[i].last_activity_at # <<>>
     /\ seats[i].last_activity_at[1] >= t - 30}

\* the logins returned by the lookup requests that succeeded
ResolvedMembers ==
  UNION {github.members[requests[i].team][requests[i].page] :
           i \in {j \in DOMAIN requests :
                    requests[j].kind = "members" /\ requests[j].ok}}

Returned == pc = "done"

\* C1: two or more page-records aggregated without a team filter yield one
\* seat per distinct login of the flattened pages, namely its first
\* occurrence, in the order of the first occurrences.
C1_DedupFirstOccurrence ==
  (Returned /\ Len(input) >= 2 /\ teamFilter = <<>>) =>
    LET flat == PageOrder(input) IN
    /\ result.total_seats =
         Cardinality({flat[i].assignee.login : i \in DOMAIN flat})
    /\ result.seats = Picked(flat, FirstOccurrences(flat))

C1_Witness ==
  /\ Returned /\ Len(input) >= 2 /\ teamFilter = <<>>
  /\ LET flat == PageOrder(input) IN
     /\ Len(flat) = 3
     /\ flat[1].assignee.login # flat[2].assignee.login
     /\ flat[3].assignee.login = flat[1].assignee.login
     /\ flat[3] # flat[1]
     /\ Len(result.seats) = 2

\* C2: no result of the Seat Aggregator has two seats with the same login.
C2_UniqueLogins ==
  Returned =>
    \A i, j \in DOMAIN result.seats :
      i # j => result.seats[i].assignee.login # result.seats[j].assignee.login

\* C3: with a non-empty team filter, when no seat carries a requested team
\* and no successful lookup returned the login of an assignee, the result is
\* empty with both totals 0.
C3_FilterNeverNoOp ==
  (/\ Returned
   /\ teamFilter # <<>>
   /\ DirectMatches(PageOrder(input), teamFilter) = {}
   /\ \A i \in DOMAIN PageOrder(input) :
        PageOrder(input)[i].assignee.login \notin ResolvedMembers)
  => /\ result.seats = <<>>
     /\ result.total_seats = 0
     /\ result.total_active_seats = <<0>>

C3_Witness ==
  /\ Returned
  /\ teamFilter # <<>>
  /\ PageOrder(input) # <<>>
  /\ DirectMatches(PageOrder(input), teamFilter) = {}
  /\ \E i \in DOMAIN requests : ~requests[i].ok
  /\ \A i \in DOMAIN PageOrder(input) :
       PageOrder(input)[i].assignee.login \notin ResolvedMembers
  /\ result.seats = <<>>

\* C4: when some seat of the list being filtered carries a requested team,
\* no team-members and no team-listing request is issued, and the filter
\* returns exactly the seats carrying a requested team, in input order.
C4_TierPreference ==
  (/\ pc # "call"
   /\ teamFilter # <<>>
   /\ DirectMatches(PageOrder(input), teamFilter) # {})
  => /\ requests = <<>>
     /\ Returned
     /\ filteredSeats =
          Picked(PageOrder(input), DirectMatches(PageOrder(input), teamFilter))

C4_Witness ==
  /\ Returned
  /\ Len(teamFilter) = 2
  /\ Cardinality(DirectMatches(PageOrder(input), teamFilter)) = 2
  /\ Len(PageOrder(input)) = 3
  /\ PageOrder(input)[1].assigning_team = <<>>
  /\ Len(filteredSeats) = 2

\* C9: in every result total_seats is the length of the seat list and
\* total_active_seats is defined and counts the active seats of that list.
C9_TotalsRecomputed ==
  Returned =>
    /\ result.total_seats = Len(result.seats)
    /\ result.total_active_seats =
         <<Cardinality(ActiveAt(result.seats, now))>>

C9_Witness ==
  /\ Returned
  /\ input # <<>>
  /\ input[1].total_active_seats = <<>>
  /\ input[1].total_seats # Len(result.seats)
  /\ result.total_active_seats # <<>>
  /\ result.total_active_seats[1] >= 1
  /\ result.total_active_seats[1] < result.total_seats

C9_WitnessEmpty ==
  Returned /\ input = <<>> /\ result = EmptyResult

\* C10: aggregateSeatsData leaves its input records unchanged.
C10_InputsUnchanged ==
  pc # "call" => data = input

\* the seat fetch or the store query failed
FetchFailure ==
  \E i \in DOMAIN seatRequests : seatRequests[i].outcome \in {"notok", "throw"}

QueryFailure ==
  \E i \in DOMAIN queries : queries[i].outcome = "throw"

\* the store answered its last query with no record
StoreEmpty ==
  /\ queries # <<>>
  /\ queries[Len(queries)].outcome = "ok"
  /\ QueryItems(store, queries[Len(queries)].query) = <<>>

\* C5: when the k-th seat-page request does not succeed, it is the last
\* request, no URL has been requested twice, and the fetcher's outcome is an
\* error that carries no page-record.
C5_AllOrNothing ==
  \A k \in DOMAIN seatRequests :
    seatRequests[k].outcome \in {"notok", "throw"} =>
      /\ Len(seatRequests) = k
      /\ \A i, j \in DOMAIN seatRequests :
           i # j => seatRequests[i].page # seatRequests[j].page
      /\ dataResponse.status = "ERROR"
      /\ "response" \notin DOMAIN dataResponse
      /\ opc = "returned"

C5_Witness ==
  /\ Len(seatRequests) = 2
  /\ seatRequests[2].outcome = "notok"
  /\ Len(fetched) = 1
  /\ fetched[1].seats # <<>>
  /\ dataResponse = FormatResponseError

\* C6: when the seat fetch or the store query fails, the public operation
\* that triggered it returns an error status, never a success.
C6_FailurePropagates ==
  (opc = "returned" /\ (FetchFailure \/ QueryFailure)) => opResult.status # "OK"

\* C7: an empty store result is reported as the "no data" error and never as
\* a success; a failed fetch or query is an error other than "no data".
C7_NoDataDistinct ==
  opc = "returned" =>
    /\ StoreEmpty => (opResult.status # "OK" /\ opResult = NoDataFound)
    /\ (FetchFailure \/ QueryFailure) => opResult # NoDataFound

\* C8: each counting place counts exactly the seats whose last activity is
\* present and not earlier than the reference instant minus 30 days.
C8_OneActivityWindow ==
  \A p \in CountingPlaces :
    counted[p] # <<>> =>
      counted[p] = <<Cardinality(ActiveAt(data[1].seats, now))>>

C8_Witness ==
  /\ \A p \in CountingPlaces : counted[p] = <<1>>
  /\ Len(data[1].seats) = 3
  /\ \E i, j, k \in DOMAIN data[1].seats :
       /\ data[1].seats[i].last_activity_at = <<now - 30>>
       /\ data[1].seats[j].last_activity_at = <<now - 31>>
       /\ data[1].seats[k].last_activity_at = <<>>

\* the URL the Link header of page k of n gives under rel="next", if any
NextRelation(k, n) == IF k < n THEN <<k + 1>> ELSE <<>>

\* C13: the seat fetcher has at most one request in flight, the first request
\* is for the first page and each later one for the URL the previous response
\* gave under rel="next"; when all n pages answered OK there were exactly n
\* requests and n records, the k-th with page = k and has_next_page = (k < n).
C13_PaginationToCompletion ==
  LET n == Len(server) IN
  /\ \A k \in DOMAIN seatRequests :
       /\ k < Len(seatRequests) => seatRequests[k].outcome = "ok"
       /\ k = 1 => seatRequests[k].page = 1
       /\ k > 1 => <<seatRequests[k].page>> = NextRelation(seatRequests[k - 1].page, n)
  /\ (~cosmos /\ dataResponse.status = "OK") =>
       /\ Len(seatRequests) = n
       /\ \A k \in 1..n : seatRequests[k].outcome = "ok"
       /\ NextRelation(seatRequests[n].page, n) = <<>>
       /\ Len(dataResponse.response) = n
       /\ \A k \in 1..n :
            /\ dataResponse.response[k].page = <<k>>
            /\ dataResponse.response[k].has_next_page = (k < n)

C13_Witness ==
  /\ ~cosmos
  /\ Len(server) = MaxRecords
  /\ dataResponse.status = "OK"
  /\ Len(dataResponse.response) = MaxRecords
  /\ dataResponse.response[1].has_next_page
  /\ ~dataResponse.response[MaxRecords].has_next_page

\* the document c satisfies the predicates of the query q
Selects(q, c) ==
  /\ c.date = q.date
  /\ q.enterprise = <<>> \/ c.enterprise = q.enterprise
  /\ q.organization = <<>> \/ c.organization = q.organization
  /\ q.team = <<>> \/ DirectMatches(c.seats, q.team) # {}
  /\ q.page = <<>> \/ c.page = q.page

\* the documents of the store the query q selects, in store order
SelectedBy(q) == Picked(store, {i \in DOMAIN store : Selects(q, store[i])})

\* the predicates the filter of the call asks for
AskedQuery ==
  [date |-> Today,
   enterprise |-> IF apiScope = "enterprise" THEN <<EnvEnterprise>> ELSE <<>>,
   organization |-> IF apiScope = "enterprise" THEN <<>> ELSE <<EnvOrganization>>,
   team |-> call.filter.team,
   page |-> IF call.filter.page = 0 THEN <<>> ELSE <<call.filter.page>>]

\* C16: the first store query carries the predicates of the filter; a second
\* query is issued exactly when the filter has a page predicate and the first
\* query answered with no record, it is the first query without the page
\* predicate, there is never a third, and the records returned are those of
\* the last query.
C16_LegacyRetry ==
  queries # <<>> =>
    /\ queries[1].query = AskedQuery
    /\ Len(queries) <= 2
    /\ (Len(queries) = 2 \/ opc = "retrying") <=>
         /\ AskedQuery.page # <<>>
         /\ queries[1].outcome = "ok"
         /\ SelectedBy(AskedQuery) = <<>>
    /\ opc = "retrying" => (Len(queries) = 1 /\ dataResponse = NoResult)
    /\ Len(queries) = 2 =>
         queries[2].query = [AskedQuery EXCEPT !.page = <<>>]
    /\ dataResponse.status = "OK" =>
         dataResponse.response = SelectedBy(queries[Len(queries)].query)

\* legacy documents without a page field, some of them without a requested
\* team: the retry returns the ones the date, scope and team predicates keep
C16_Witness ==
  /\ Len(queries) = 2
  /\ queries[2].query.team # <<>>
  /\ dataResponse.status = "OK"
  /\ dataResponse.response # <<>>
  /\ Len(dataResponse.response) < Len(store)

\* the operation runs on the historical store with a team filter
StoreWithTeams ==
  /\ cosmos
  /\ opc \in {"begin", "retrying", "aggregating", "returned"}
  /\ "filter" \in DOMAIN call
  /\ call.filter.team # <<>>

\* C18: on the historical store with a team filter no tier-2 lookup is ever
\* made: the records handed to the aggregator each hold a seat of a requested
\* team, and the aggregator either got no record and returns the empty result
\* or returns the direct matches; a store whose seats carry no team yields
\* zero seats.
C18_StoreNeverTierTwo ==
  StoreWithTeams =>
    /\ requests = <<>>
    /\ pc \notin {"tier2"}
    /\ dataResponse.status = "OK" =>
         \A k \in DOMAIN dataResponse.response :
           DirectMatches(dataResponse.response[k].seats, call.filter.team) # {}
    /\ Returned =>
         /\ input = <<>> => result.seats = <<>>
         /\ input # <<>> => DirectMatches(PageOrder(input), teamFilter) # {}
         /\ \A i \in DOMAIN result.seats :
              /\ result.seats[i].assigning_team # <<>>
              /\ \E t \in DOMAIN teamFilter :
                   teamFilter[t] = result.seats[i].assigning_team[1].name
         /\ (\A k \in DOMAIN store : \A i \in DOMAIN store[k].seats :
                store[k].seats[i].assigning_team = <<>>)
              => result.seats = <<>>

\* a store of team-less snapshots queried with a team filter
C18_Witness ==
  /\ StoreWithTeams
  /\ Returned
  /\ store # <<>>
  /\ \E k \in DOMAIN store : store[k].seats # <<>>
  /\ \A k \in DOMAIN store : \A i \in DOMAIN store[k].seats :
       store[k].seats[i].assigning_team = <<>>
  /\ result.seats = <<>>
  /\ requests = <<>>

\* the result carries the scope, page, last_update, date and id of the record
FieldsOf(rec) ==
  /\ result.enterprise = rec.enterprise
  /\ result.organization = rec.organization
  /\ result.page = rec.page
  /\ result.last_update = rec.last_update
  /\ result.date = rec.date
  /\ result.id = rec.id

\* C17 as stated: for any non-empty input the result has has_next_page =
\* false and the scope fields, page, last_update, date and id of the first
\* input record.
C17_AlwaysResolved ==
  (Returned /\ input # <<>>) =>
    /\ result.has_next_page = FALSE
    /\ FieldsOf(input[1])

\* C17 amended: for any non-empty input the result has the scope fields,
\* page, last_update, date and id of the first input record; has_next_page is
\* false for two or more input records and is that of the record for a
\* single input record.
C17_FirstRecordFields ==
  (Returned /\ input # <<>>) =>
    /\ FieldsOf(input[1])
    /\ Len(input) >= 2 => result.has_next_page = FALSE
    /\ Len(input) = 1 => result.has_next_page = input[1].has_next_page

C17_Witness ==
  /\ Returned
  /\ Len(input) >= 2
  /\ input[1].has_next_page
  /\ input[1].page = <<1>>
  /\ input[2].page = <<2>>
  /\ result.page = <<1>>
  /\ result.has_next_page = FALSE

\* every member on every page of the member listing of team t
AllMembersOf(t) ==
  IF t \in DOMAIN github.members
  THEN UNION {github.members[t][p] : p \in DOMAIN github.members[t]}
  ELSE {}

\* the teams on any page of the team listing whose parent is named t, or the
\* two named children when t is the named parent
ChildrenOf(t) ==
  IF t = "Birdeye_team" THEN {"Insights_team", "labs_team"}
  ELSE {github.teams[p][i].name : <<p, i>> \in
          {<<q, j>> \in (DOMAIN github.teams) \X (1..3) :
             /\ j \in DOMAIN github.teams[q]
             /\ github.teams[q][j].parent # <<>>
             /\ github.teams[q][j].parent[1].name = t}}

\* the members of the requested teams and of their children
MembershipOf(tf) ==
  UNION {AllMembersOf(tf[n]) \cup UNION {AllMembersOf(c) : c \in ChildrenOf(tf[n])} :
           n \in DOMAIN tf}

\* tier 2 ran to its end
TierTwoDone ==
  /\ Returned
  /\ teamFilter # <<>>
  /\ DirectMatches(PageOrder(input), teamFilter) = {}
  /\ requests # <<>>

\* C14: when no seat matches directly and every lookup succeeds, the filter
\* returns exactly the seats whose login is a member, on any page, of a
\* requested team or of a team on any page of the team listing whose parent
\* is a requested team (the two named children for the named parent).
C14_TierTwoMembership ==
  (TierTwoDone /\ \A i \in DOMAIN requests : requests[i].ok) =>
    filteredSeats =
      Picked(PageOrder(input),
             {i \in DOMAIN PageOrder(input) :
                PageOrder(input)[i].assignee.login \in MembershipOf(teamFilter)})

\* the requests a getTeamMembers call for team t made, if it was made
AskedMembers(t) ==
  \E i \in DOMAIN requests :
    requests[i].kind = "members" /\ requests[i].team = t /\ requests[i].page = 1

\* the number of requests to the team listing
ListingRequests ==
  Cardinality({i \in DOMAIN requests : requests[i].kind = "teams"})

\* C15: whatever lookups fail, the aggregation returns a result; every
\* requested team and each of the two named children had its members asked
\* for, every requested team other than the named parent had the team
\* listing asked for, and the filter returns every seat whose login was on a
\* member page that answered OK.
C15_LookupFailuresAbsorbed ==
  TierTwoDone =>
       /\ "seats" \in DOMAIN result
       /\ \A n \in DOMAIN teamFilter :
            /\ AskedMembers(teamFilter[n])
            /\ teamFilter[n] = "Birdeye_team" =>
                 AskedMembers("Insights_team") /\ AskedMembers("labs_team")
       /\ ListingRequests =
            Cardinality({n \in DOMAIN teamFilter : teamFilter[n] # "Birdeye_team"})
       /\ ResolvedMembers \subseteq teamMembers
       /\ filteredSeats =
            Picked(PageOrder(input),
                   {i \in DOMAIN PageOrder(input) :
                      PageOrder(input)[i].assignee.login \in ResolvedMembers})
       /\ \A i \in DOMAIN filteredSeats :
            \E j \in DOMAIN result.seats :
              result.seats[j].assignee.login = filteredSeats[i].assignee.login

\* a lookup failed, a later one succeeded, and a seat found by each side of
\* the failure is in the result
C15_Witness ==
  /\ TierTwoDone
  /\ \E i, j, k \in DOMAIN requests :
       /\ i < j /\ j < k
       /\ requests[i].kind = "members" /\ requests[i].ok
       /\ ~requests[j].ok
       /\ requests[k].kind = "members" /\ requests[k].ok
       /\ \E s, t \in DOMAIN result.seats :
            /\ result.seats[s].assignee.login
                 \in github.members[requests[i].team][requests[i].page]
            /\ result.seats[t].assignee.login
                 \in github.members[requests[k].team][requests[k].page]
            /\ result.seats[s].assignee.login # result.seats[t].assignee.login

\* a catalog was returned
CatalogReturned ==
  /\ opc = "returned"
  /\ call.op = "getAllCopilotSeatsTeams"
  /\ opResult.status = "OK"

\* name a is not after name b: the empty name first, then "A", then "B"
NameNotAfter(a, b) ==
  <<a, b>> \in {<<"", "">>, <<"", "A">>, <<"", "B">>,
                <<"A", "A">>, <<"A", "B">>, <<"B", "B">>}

\* C11: every catalog getAllCopilotSeatsTeams returns, from the store or from
\* the live API, is in ascending order of team name, the empty name first.
C11_CatalogSorted ==
  CatalogReturned =>
    \A i, j \in DOMAIN opResult.response :
      i < j => NameNotAfter(opResult.response[i].name, opResult.response[j].name)

\* two team references are the same team: by id when both have one, by name
\* otherwise
SameTeam(a, b) ==
  IF a.id # <<>> /\ b.id # <<>> THEN a.id = b.id ELSE a.name = b.name

\* the team references the live API path read
ObservedTeams ==
  IF requests = <<>>
  THEN {server[k][i].assigning_team[1] : <<k, i>> \in
          {<<p, j>> \in (DOMAIN server) \X (1..MaxSeats) :
             j \in DOMAIN server[p] /\ server[p][j].assigning_team # <<>>}}
  ELSE {github.teams[requests[r].page][i] : <<r, i>> \in
          {<<q, j>> \in (DOMAIN requests) \X (1..2) :
             requests[q].ok /\ j \in DOMAIN github.teams[requests[q].page]}}

\* C12: the catalog of the live API path holds no two entries that are the
\* same team (by id when both have one, by name otherwise), and every team
\* reference read is the same team as some entry.
C12_CatalogDistinct ==
  (CatalogReturned /\ ~cosmos) =>
    /\ \A i, j \in DOMAIN opResult.response :
         i # j => ~SameTeam(opResult.response[i], opResult.response[j])
    /\ \A o \in ObservedTeams :
         \E i \in DOMAIN opResult.response : SameTeam(o, opResult.response[i])

====
